---- MODULE Spec2Model ----
(***************************************************************************)
(* Model of gen_manifest.py (art365): parse_filename and generate_manifest *)
(* run over a directory listing.  Filenames are strings; the two regular   *)
(* expressions are evaluated with the backtracking priorities of Python's  *)
(* re module (greedy: longest first, lazy: shortest first).                *)
(***************************************************************************)
EXTENDS Integers, Sequences, FiniteSets, TLC

VARIABLES pc, dirExists, dirList, oldFile, manifestFile, writes,
          manifest, image_files, idx, console

vars == <<pc, dirExists, dirList, oldFile, manifestFile, writes,
          manifest, image_files, idx, console>>

\* Largest number of entries in the images directory.
MaxFiles == 3

(***************************************************************************)
(* Strings                                                                 *)
(***************************************************************************)
Ch(s, i) == IF i >= 1 /\ i <= Len(s) THEN SubSeq(s, i, i) ELSE ""

Max(S) == CHOOSE m \in S : \A n \in S : n <= m

Min(S) == CHOOSE m \in S : \A n \in S : m <= n

None == {}

Some(v) == {v}

Get(o) == CHOOSE v \in o : TRUE

Digits == "0123456789"

IsDigit(c) == \E i \in 1..10 : Ch(Digits, i) = c

DigitVal(c) == (CHOOSE i \in 1..10 : Ch(Digits, i) = c) - 1

IsSpace(c) == c \in {" ", "\t"}

UpperCase == "ABCDEFGHIJKLMNOPQRSTUVWXYZ"

LowerCase == "abcdefghijklmnopqrstuvwxyz"

LowerChar(c) ==
    IF \E i \in 1..26 : Ch(UpperCase, i) = c
    THEN Ch(LowerCase, CHOOSE i \in 1..26 : Ch(UpperCase, i) = c)
    ELSE c

RECURSIVE lower(_)
lower(s) ==
    IF Len(s) = 0 THEN ""
    ELSE lower(SubSeq(s, 1, Len(s) - 1)) \o LowerChar(Ch(s, Len(s)))

endswith(s, suffix) ==
    /\ Len(s) >= Len(suffix)
    /\ SubSeq(s, Len(s) - Len(suffix) + 1, Len(s)) = suffix

\* int() of a string of decimal digits
RECURSIVE int(_)
int(s) ==
    IF Len(s) = 0 THEN 0
    ELSE int(SubSeq(s, 1, Len(s) - 1)) * 10 + DigitVal(Ch(s, Len(s)))

\* str.strip(): drop leading and trailing whitespace
strip(s) ==
    LET keep == {i \in 1..Len(s) : ~IsSpace(Ch(s, i))}
    IN  IF keep = {} THEN "" ELSE SubSeq(s, Min(keep), Max(keep))

\* os.path.splitext(filename)[0] for a name without a path separator: the
\* extension starts at the last dot, unless only dots precede it.
splitext(p) ==
    LET dots == {i \in 1..Len(p) : Ch(p, i) = "."}
    IN  IF dots = {} THEN p
        ELSE LET dotIndex == Max(dots)
             IN  IF \E i \in 1..(dotIndex - 1) : Ch(p, i) # "."
                 THEN SubSeq(p, 1, dotIndex - 1)
                 ELSE p

(***************************************************************************)
(* Regular expressions.  A pattern is a sequence of items: a literal       *)
(* character, or a repeated character class (\d, \s or .) with its least   *)
(* and largest count, its greediness and the group it captures (0: none).  *)
(* ReMatch returns {} when the pattern does not match at the start of the  *)
(* string, and otherwise {groups} for the first match the backtracking     *)
(* engine finds: a greedy item tries its longest run first, a lazy item    *)
(* its shortest, and an earlier item keeps its choice while any choice of  *)
(* the later items lets the rest match.                                    *)
(***************************************************************************)
Unbounded == -1

Lit(c) ==
    [kind |-> "lit", ch |-> c, cls |-> "", min |-> 1, max |-> 1,
     greedy |-> TRUE, group |-> 0]

Rep(cls, min, max, greedy, group) ==
    [kind |-> "rep", ch |-> "", cls |-> cls, min |-> min, max |-> max,
     greedy |-> greedy, group |-> group]

\* \d, \s and '.' (every character except a newline)
InClass(c, cls) ==
    CASE cls = "d" -> IsDigit(c)
      [] cls = "s" -> IsSpace(c)
      [] cls = "." -> c # "" /\ c # "\n"

\* how many characters of the class follow from position i, at most max
Run(s, i, cls, max) ==
    LET all == {n \in 0..(Len(s) - i + 1) :
                   \A j \in i..(i + n - 1) : InClass(Ch(s, j), cls)}
    IN  Max({n \in all : max = Unbounded \/ n <= max})

\* the candidate with the most (greedy) or fewest (lazy) repetitions
Pick(found, greedy) ==
    IF found = {} THEN {}
    ELSE {(CHOOSE x \in found :
              \A y \in found : IF greedy THEN y.n <= x.n ELSE x.n <= y.n).groups}

RECURSIVE MatchFrom(_, _, _, _, _)
MatchFrom(pat, k, s, i, groups) ==
    IF k > Len(pat) THEN {groups}
    ELSE IF pat[k].kind = "lit"
    THEN IF Ch(s, i) = pat[k].ch
         THEN MatchFrom(pat, k + 1, s, i + 1, groups)
         ELSE {}
    ELSE Pick(UNION {{[n |-> n, groups |-> g] :
                         g \in MatchFrom(pat, k + 1, s, i + n,
                                   IF pat[k].group = 0 THEN groups
                                   ELSE [groups EXCEPT ![pat[k].group] =
                                             SubSeq(s, i, i + n - 1)])} :
                     n \in pat[k].min..Run(s, i, pat[k].cls, pat[k].max)},
              pat[k].greedy)

\* re.match(pattern, s)
ReMatch(pat, s) == MatchFrom(pat, 1, s, 1, [g \in 1..4 |-> ""])

\* r'(\d+)\.\s*(.+?)\s+by\s+(.+?),\s*(\d{4})'
PrimaryPattern ==
    << Rep("d", 1, Unbounded, TRUE, 1), Lit("."), Rep("s", 0, Unbounded, TRUE, 0),
       Rep(".", 1, Unbounded, FALSE, 2),
       Rep("s", 1, Unbounded, TRUE, 0), Lit("b"), Lit("y"),
       Rep("s", 1, Unbounded, TRUE, 0),
       Rep(".", 1, Unbounded, FALSE, 3),
       Lit(","), Rep("s", 0, Unbounded, TRUE, 0), Rep("d", 4, 4, TRUE, 4) >>

\* r'(\d+)\.\s*(.+?),\s*(\d{4})'
FallbackPattern ==
    << Rep("d", 1, Unbounded, TRUE, 1), Lit("."), Rep("s", 0, Unbounded, TRUE, 0),
       Rep(".", 1, Unbounded, FALSE, 2),
       Lit(","), Rep("s", 0, Unbounded, TRUE, 0), Rep("d", 4, 4, TRUE, 3) >>

\* r'(\d+)'
NumberPattern == << Rep("d", 1, Unbounded, TRUE, 1) >>

PrimaryMatch(name) ==
    {[number |-> g[1], title |-> g[2], artist |-> g[3], year |-> g[4]] :
        g \in ReMatch(PrimaryPattern, name)}

FallbackMatch(name) ==
    {[number |-> g[1], artist |-> g[2], year |-> g[3]] :
        g \in ReMatch(FallbackPattern, name)}

(***************************************************************************)
(* parse_filename: the returned tuple (None is {}, a value v is {v}) and   *)
(* the lines it prints.                                                    *)
(***************************************************************************)
Line(kind, text) == [kind |-> kind, text |-> text]

\* variant: the fallback branch hands the artist segment back as the title
parse_filename_FallbackTitle(filename) ==
    LET name == splitext(filename)
        m1 == PrimaryMatch(name)
        m2 == FallbackMatch(name)
    IN  IF m1 # {}
        THEN [number |-> Some(int(Get(m1).number)),
              title  |-> Some(strip(Get(m1).title)),
              artist |-> Some(strip(Get(m1).artist)),
              year   |-> Some(int(Get(m1).year)),
              printed |-> <<>>]
        ELSE IF m2 # {}
        THEN [number |-> Some(int(Get(m2).number)),
              title  |-> Some(strip(Get(m2).artist)),
              artist |-> Some(strip(Get(m2).artist)),
              year   |-> Some(int(Get(m2).year)),
              printed |-> <<>>]
        ELSE [number |-> None, title |-> None, artist |-> None, year |-> None,
              printed |-> <<Line("Warning", filename)>>]

parse_filename(filename) ==
    LET name == splitext(filename)
        m1 == PrimaryMatch(name)
        m2 == FallbackMatch(name)
    IN  IF m1 # {}
        THEN [number |-> Some(int(Get(m1).number)),
              title  |-> Some(strip(Get(m1).title)),
              artist |-> Some(strip(Get(m1).artist)),
              year   |-> Some(int(Get(m1).year)),
              printed |-> <<>>]
        ELSE IF m2 # {}
        THEN [number |-> Some(int(Get(m2).number)),
              title  |-> None,
              artist |-> Some(strip(Get(m2).artist)),
              year   |-> Some(int(Get(m2).year)),
              printed |-> <<>>]
        ELSE [number |-> None, title |-> None, artist |-> None, year |-> None,
              printed |-> <<Line("Warning", filename)>>]

\* the files a directory may hold
Pool ==
    { "1. A by B, 1900.jpg",
      "2. C, 1872.JPG",
      "1. D, 1901.png",
      "1000. E by F, 1950.jpeg",
      "cover.jpg",
      "3. G.jpg",
      "4. H, 1920.txt",
      "notes.md",
      "5.  by K, 1900.jpg",
      "999. M, 1999.jpg",
      "02. N by O, 1800.png",
      "9. by V, 1900.jpg" }

\* The per-file results of the run, computed once for the files of Pool.
ParseOf == [f \in Pool |-> parse_filename(f)]

(***************************************************************************)
(* generate_manifest                                                       *)
(***************************************************************************)
images_dir == "images"

output_file == "manifest.json"

UrlBase == "https://raw.githubusercontent.com/brandonbunt/art365/main/images/"

\* f.lower().endswith(('.jpg', '.jpeg', '.png'))
IsImageFile(f) ==
    \E ext \in {".jpg", ".jpeg", ".png"} : endswith(lower(f), ext)

\* [f for f in os.listdir(images_dir) if ...]: the listing order is kept
ImageFileOf == [f \in Pool |-> IsImageFile(f)]

\* variant: the listing is not filtered by extension
ListImages_NoFilter(listing) == listing

ListImages(listing) == SelectSeq(listing, LAMBDA f : ImageFileOf[f])

\* key=lambda x: int(re.match(r'(\d+)', x).group(1)) if re.match(r'(\d+)', x) else 999
SortKey(x) ==
    LET m == ReMatch(NumberPattern, x)
    IN  IF m # {} THEN int(Get(m)[1]) ELSE 999

SortKeyOf == [f \in Pool |-> SortKey(f)]

\* variant: the sort is descending
Insert_Descending(sorted, x) ==
    LET before == {i \in 1..Len(sorted) : SortKeyOf[sorted[i]] >= SortKeyOf[x]}
        n == IF before = {} THEN 0 ELSE Max(before)
    IN  SubSeq(sorted, 1, n) \o <<x>> \o SubSeq(sorted, n + 1, Len(sorted))

\* list.sort is stable: x goes after every element whose key is not larger
Insert(sorted, x) ==
    LET before == {i \in 1..Len(sorted) : SortKeyOf[sorted[i]] <= SortKeyOf[x]}
        n == IF before = {} THEN 0 ELSE Max(before)
    IN  SubSeq(sorted, 1, n) \o <<x>> \o SubSeq(sorted, n + 1, Len(sorted))

\* variant: the sort is left out
SortByNumber_Unsorted(files) == files

RECURSIVE SortByNumber(_)
SortByNumber(files) ==
    IF files = <<>> THEN <<>>
    ELSE Insert(SortByNumber(SubSeq(files, 1, Len(files) - 1)), files[Len(files)])

\* the entry built for a parsed file; "title" is set only for a truthy title
HasTitle(r) == r.title # None /\ Get(r.title) # ""

Entry(filename, r) ==
    IF HasTitle(r)
    THEN [id |-> Get(r.number), filename |-> filename, artist |-> Get(r.artist),
          year |-> Get(r.year), url |-> UrlBase \o filename,
          title |-> Get(r.title)]
    ELSE [id |-> Get(r.number), filename |-> filename, artist |-> Get(r.artist),
          year |-> Get(r.year), url |-> UrlBase \o filename]

NewManifest == [version |-> "1.0", total_images |-> 0, images |-> <<>>]

\* os.listdir returns the names of the directory in arbitrary order
Listings ==
    UNION {{l \in [1..n -> Pool] : \A i, j \in 1..n : i # j => l[i] # l[j]} :
             n \in 0..MaxFiles}

\* a manifest.json left by an earlier run
StaleManifest ==
    [version |-> "1.0", total_images |-> 1,
     images |-> <<[id |-> 365, filename |-> "365. Z, 1999.jpg", artist |-> "Z",
                   year |-> 1999, url |-> UrlBase \o "365. Z, 1999.jpg"]>>]

Init ==
    /\ pc = "start"
    /\ dirExists \in BOOLEAN
    /\ dirList \in (IF dirExists THEN Listings ELSE {<<>>})
    /\ oldFile \in {None, Some(StaleManifest)}
    /\ manifestFile = oldFile
    /\ writes = 0
    /\ manifest = NewManifest
    /\ image_files = <<>>
    /\ idx = 1
    /\ console = <<>>

\* variant: a missing directory still produces an (empty) manifest.json
DirNotFound_WritesEmpty ==
    /\ pc = "start"
    /\ ~dirExists
    /\ console' = console \o <<Line("Error", images_dir), Line("Hint", "")>>
    /\ manifestFile' = Some(NewManifest)
    /\ writes' = writes + 1
    /\ pc' = "done"
    /\ UNCHANGED <<dirExists, dirList, oldFile, manifest, image_files, idx>>

\* if not os.path.exists(images_dir): print the error and return
DirNotFound ==
    /\ pc = "start"
    /\ ~dirExists
    /\ console' = console \o <<Line("Error", images_dir), Line("Hint", "")>>
    /\ pc' = "done"
    /\ UNCHANGED <<dirExists, dirList, oldFile, manifestFile, writes,
                   manifest, image_files, idx>>

\* create the manifest, list the image files, sort them by number
ListAndSort ==
    /\ pc = "start"
    /\ dirExists
    /\ manifest' = NewManifest
    /\ image_files' = SortByNumber(ListImages(dirList))
    /\ console' = console \o <<Line("Found", images_dir), Line("Parsing", "")>>
    /\ idx' = 1
    /\ pc' = "loop"
    /\ UNCHANGED <<dirExists, dirList, oldFile, manifestFile, writes>>

\* variant: the loop stops at the first file that cannot be parsed
ProcessFile_AbortOnWarning ==
    /\ pc = "loop"
    /\ idx <= Len(image_files)
    /\ LET filename == image_files[idx]
           r == ParseOf[filename]
       IN  IF r.number # None
           THEN /\ manifest' = [manifest EXCEPT
                                  !.images = Append(@, Entry(filename, r))]
                /\ console' = console \o r.printed
                                      \o <<Line("Progress", filename)>>
                /\ idx' = idx + 1
           ELSE /\ manifest' = manifest
                /\ console' = console \o r.printed
                /\ idx' = Len(image_files) + 1
    /\ UNCHANGED <<pc, dirExists, dirList, oldFile, manifestFile, writes,
                   image_files>>

\* one iteration of: for filename in image_files
ProcessFile ==
    /\ pc = "loop"
    /\ idx <= Len(image_files)
    /\ LET filename == image_files[idx]
           r == ParseOf[filename]
       IN  IF r.number # None
           THEN /\ manifest' = [manifest EXCEPT
                                  !.images = Append(@, Entry(filename, r))]
                /\ console' = console \o r.printed
                                      \o <<Line("Progress", filename)>>
           ELSE /\ manifest' = manifest
                /\ console' = console \o r.printed
    /\ idx' = idx + 1
    /\ UNCHANGED <<pc, dirExists, dirList, oldFile, manifestFile, writes,
                   image_files>>

\* variant: total_images counts the listed files
WriteManifest_CountFiles ==
    /\ pc = "loop"
    /\ idx > Len(image_files)
    /\ manifest' = [manifest EXCEPT !.total_images = Len(image_files)]
    /\ manifestFile' = Some(manifest')
    /\ writes' = writes + 1
    /\ console' = console \o <<Line("Generated", output_file)>>
    /\ pc' = "done"
    /\ UNCHANGED <<dirExists, dirList, oldFile, image_files, idx>>

\* variant: nothing is written when no file was parsed
WriteManifest_SkipEmpty ==
    /\ pc = "loop"
    /\ idx > Len(image_files)
    /\ manifest' = [manifest EXCEPT !.total_images = Len(manifest.images)]
    /\ IF manifest.images # <<>>
       THEN manifestFile' = Some(manifest') /\ writes' = writes + 1
       ELSE UNCHANGED <<manifestFile, writes>>
    /\ console' = console \o <<Line("Generated", output_file)>>
    /\ pc' = "done"
    /\ UNCHANGED <<dirExists, dirList, oldFile, image_files, idx>>

\* after the loop: set total_images, write manifest.json, print the summary
WriteManifest ==
    /\ pc = "loop"
    /\ idx > Len(image_files)
    /\ manifest' = [manifest EXCEPT !.total_images = Len(manifest.images)]
    /\ manifestFile' = Some(manifest')
    /\ writes' = writes + 1
    /\ console' = console \o <<Line("Generated", output_file)>>
    /\ pc' = "done"
    /\ UNCHANGED <<dirExists, dirList, oldFile, image_files, idx>>

Next == DirNotFound \/ ListAndSort \/ ProcessFile \/ WriteManifest

Spec == Init /\ [][Next]_vars

TypeOK ==
    /\ pc \in {"start", "loop", "done"}
    /\ writes \in 0..1
    /\ idx \in 1..(Len(image_files) + 1)

(***************************************************************************)
(* The whole run as a function of the directory listing.                   *)
(***************************************************************************)
RECURSIVE Assemble(_)
Assemble(files) ==
    IF files = <<>> THEN <<>>
    ELSE LET done == Assemble(SubSeq(files, 1, Len(files) - 1))
             f == files[Len(files)]
         IN  IF ParseOf[f].number # None
             THEN Append(done, Entry(f, ParseOf[f]))
             ELSE done

ManifestOf(listing) ==
    LET images == Assemble(SortByNumber(ListImages(listing)))
    IN  [version |-> "1.0", total_images |-> Len(images), images |-> images]

(***************************************************************************)
(* Vocabulary of the properties                                            *)
(***************************************************************************)
Range(q) == {q[i] : i \in 1..Len(q)}

\* what the two patterns say about each file of Pool
MatchOf ==
    [f \in Pool |-> [primary  |-> PrimaryMatch(splitext(f)),
                     fallback |-> FallbackMatch(splitext(f))]]

Unparseable(f) == MatchOf[f].primary = {} /\ MatchOf[f].fallback = {}

FallbackOnly(f) == MatchOf[f].primary = {} /\ MatchOf[f].fallback # {}

HasImageExtension(f) ==
    \/ endswith(lower(f), ".jpg")
    \/ endswith(lower(f), ".jpeg")
    \/ endswith(lower(f), ".png")

ImageExtOf == [f \in Pool |-> HasImageExtension(f)]

Numbered(f) == IsDigit(Ch(f, 1))

Written == writes > 0 /\ manifestFile # None

WrittenImages == Get(manifestFile).images

Finished == pc = "done" /\ dirExists

Warned(f) == \E i \in 1..Len(console) : console[i] = Line("Warning", f)

Mentioned(f) == \E i \in 1..Len(console) : console[i].text = f

EntriesFor(f) == {i \in 1..Len(WrittenImages) : WrittenImages[i].filename = f}

Perms(q) ==
    {[i \in 1..Len(q) |-> q[p[i]]] : p \in Permutations(1..Len(q))}

DistinctNumbers(listing) ==
    \A f, g \in {h \in Range(listing) : ImageExtOf[h] /\ ~Unparseable(h)} :
        f # g => SortKeyOf[f] # SortKeyOf[g]

(***************************************************************************)
(* Properties                                                              *)
(***************************************************************************)
\* C1: whenever manifest.json has been written, its total_images equals the
\* number of entries of its images sequence.
C1_TotalEqualsLength ==
    Written => Get(manifestFile).total_images = Len(WrittenImages)

\* C1 witness: a manifest was written for a directory holding both a parsed
\* and an unparseable image file.
C1_Witness ==
    /\ Finished /\ Written
    /\ Len(WrittenImages) >= 1
    /\ Len(image_files) > Len(WrittenImages)

\* C2: no two entries of the written manifest have the same id.
C2_UniqueIds ==
    Written => \A i, j \in 1..Len(WrittenImages) :
                   i # j => WrittenImages[i].id # WrittenImages[j].id

\* C3: the written images sequence is ordered by ascending id, and the id of
\* every entry is the leading number its file was sorted by.
C3_AscendingIds ==
    Written =>
        /\ \A i, j \in 1..Len(WrittenImages) :
               i < j => WrittenImages[i].id <= WrittenImages[j].id
        /\ \A i \in 1..Len(WrittenImages) :
               WrittenImages[i].id = SortKeyOf[WrittenImages[i].filename]

\* C3 witness: two entries with different ids were written although the
\* directory listed a larger number before a smaller one.
C3_Witness ==
    /\ Finished /\ Written
    /\ \E i, j \in 1..Len(WrittenImages) :
           WrittenImages[i].id < WrittenImages[j].id
    /\ \E i, j \in 1..Len(dirList) :
           /\ i < j
           /\ SortKeyOf[dirList[i]] > SortKeyOf[dirList[j]]
           /\ EntriesFor(dirList[i]) # {}
           /\ EntriesFor(dirList[j]) # {}

\* C4: in the processing order, no file without a leading number comes
\* before a file with a leading number.
C4_UnnumberedLast ==
    pc # "start" =>
        \A i, j \in 1..Len(image_files) :
            i < j => ~(~Numbered(image_files[i]) /\ Numbered(image_files[j]))

\* C5: when the images directory does not exist, the error is reported and
\* manifest.json is never written: it keeps its earlier content or absence.
C5_MissingDirNoWrite ==
    ~dirExists =>
        /\ manifestFile = oldFile
        /\ writes = 0
        /\ pc = "done" => \E i \in 1..Len(console) : console[i].kind = "Error"

\* C5 witness: the run for a missing directory has returned and an earlier
\* manifest.json exists.
C5_Witness == ~dirExists /\ pc = "done" /\ oldFile # None

\* C6: at the end of a run, every image file matching neither pattern has a
\* warning and no entry, every other image file has its entry, and
\* manifest.json has been written.
C6_UnparseableSkipped ==
    Finished =>
        /\ Written
        /\ \A f \in Range(image_files) :
               IF Unparseable(f)
               THEN Warned(f) /\ EntriesFor(f) = {}
               ELSE Cardinality(EntriesFor(f)) = 1

\* C6 witness: an unparseable image file was processed between two
\* parseable ones.
C6_Witness ==
    /\ Finished
    /\ \E i, j, k \in 1..Len(image_files) :
           /\ i < j /\ j < k
           /\ ~Unparseable(image_files[i])
           /\ Unparseable(image_files[j])
           /\ ~Unparseable(image_files[k])

\* C7: at the end of a run, the entry of a file that only the fallback
\* pattern matches has no title and carries the id, artist and year of the
\* fallback match; the entry of a file the primary pattern matches carries
\* the groups of the primary match.
C7_FallbackNoTitle ==
    Finished =>
        \A f \in Range(image_files) :
            /\ FallbackOnly(f) =>
                   /\ ParseOf[f].title = None
                   /\ \E i \in EntriesFor(f) :
                          LET e == WrittenImages[i]
                              m == Get(MatchOf[f].fallback)
                          IN  /\ "title" \notin DOMAIN e
                              /\ e.id = int(m.number)
                              /\ e.artist = strip(m.artist)
                              /\ e.year = int(m.year)
            /\ MatchOf[f].primary # {} =>
                   \E i \in EntriesFor(f) :
                       LET e == WrittenImages[i]
                           m == Get(MatchOf[f].primary)
                       IN  /\ e.id = int(m.number)
                           /\ e.artist = strip(m.artist)
                           /\ e.year = int(m.year)
                           /\ ("title" \in DOMAIN e) = (strip(m.title) # "")
                           /\ "title" \in DOMAIN e => e.title = strip(m.title)

\* C7 witness: a run processed a file matched only by the fallback pattern
\* and a file matched by the primary pattern.
C7_Witness ==
    /\ Finished
    /\ \E f, g \in Range(image_files) :
           FallbackOnly(f) /\ MatchOf[g].primary # {}

\* C8: every entry of the manifest names a file ending in .jpg, .jpeg or
\* .png (case-insensitively), and a file with another extension gets neither
\* an entry nor a console line.
C8_OnlyImageExtensions ==
    /\ \A f \in Range(image_files) : ImageExtOf[f]
    /\ \A i \in 1..Len(manifest.images) :
           ImageExtOf[manifest.images[i].filename]
    /\ Written => \A i \in 1..Len(WrittenImages) :
                      ImageExtOf[WrittenImages[i].filename]
    /\ \A f \in Range(dirList) : ~ImageExtOf[f] => ~Mentioned(f)
    /\ pc # "start" =>
           \A f \in Range(dirList) : ImageExtOf[f] => f \in Range(image_files)

\* C8 witness: the directory held a file with another extension that both
\* patterns would accept, next to an image file with an upper-case
\* extension that got its entry.
C8_Witness ==
    /\ Finished
    /\ \E f \in Range(dirList) : ~ImageExtOf[f] /\ ~Unparseable(f)
    /\ \E f \in Range(dirList) :
           /\ lower(f) # f
           /\ endswith(lower(f), ".jpg")
           /\ EntriesFor(f) # {}

\* C9: for an existing directory manifest.json is written exactly once, only
\* after the last listed file has been processed, and then holds the new
\* manifest (one entry per parsed file) whatever it held before.
C9_WrittenOnceAtEnd ==
    dirExists =>
        /\ pc # "done" => writes = 0 /\ manifestFile = oldFile
        /\ pc = "done" =>
               /\ writes = 1
               /\ idx = Len(image_files) + 1
               /\ manifestFile = Some(manifest)
               /\ manifest.version = "1.0"
               /\ Len(manifest.images) =
                      Cardinality({f \in Range(dirList) :
                                      ImageExtOf[f] /\ ~Unparseable(f)})

\* C9 witness: an earlier manifest.json was replaced by a manifest with no
\* entries, the directory holding only unparseable image files.
C9_Witness ==
    /\ Finished
    /\ oldFile # None
    /\ image_files # <<>>
    /\ manifestFile = Some(NewManifest)

\* C10: when the parseable image files have pairwise distinct leading
\* numbers, every other listing order of the same directory yields the
\* manifest that was written.
C10_ListingOrderIrrelevant ==
    (Finished /\ DistinctNumbers(dirList)) =>
        \A q \in Perms(dirList) : Some(ManifestOf(q)) = manifestFile

\* C10 witness: a run wrote two or more entries while an unparseable image
\* file shared its sort key with a parsed one.
C10_Witness ==
    /\ Finished
    /\ DistinctNumbers(dirList)
    /\ Len(manifest.images) >= 2
    /\ \E f, g \in Range(image_files) :
           Unparseable(f) /\ ~Unparseable(g) /\ SortKeyOf[f] = SortKeyOf[g]

====
